---- MODULE Spec2Model ----
(***************************************************************************)
(* A model of gish's request engine: importFiles (directive expansion),    *)
(* GptRequest.submitChat / fetch / appendToLog / getPrviousRequests and    *)
(* LLM.fetch / LLM.streamResponse.                                         *)
(*                                                                         *)
(* Strings are sequences of tokens.  A token stands for a run of           *)
(* characters of one class: " " and "\n" are whitespace, "Error:" is the   *)
(* literal prefix the backend wrapper puts before an error message, the    *)
(* other tokens are words.                                                 *)
(***************************************************************************)
EXTENDS Integers, Sequences, FiniteSets, TLC

\* ------------------------------------------------------------------ bounds

\* CLI invocations run one after the other in one behaviour of SessionSpec
MaxRuns == 2
\* "data" events delivered on one response stream
MaxChunks == 2
\* lines of a request text handed to importFiles in ExpandSpec
MaxLines == 3

\* ----------------------------------------------------------------- strings

NL == "\n"

IsSpace(c) == c \in {" ", NL}

\* tokens made only of the characters the directive regexes accept as a
\* path: [~\w\\./]
IsPathTok(c) == c \in {"f1", "f3", "nofile", "p1", "hi", "a", "~", "/f", "/home"}

RECURSIVE TrimStart(_)
TrimStart(s) ==
  IF s # <<>> /\ IsSpace(Head(s)) THEN TrimStart(Tail(s)) ELSE s

RECURSIVE TrimEnd(_)
TrimEnd(s) ==
  IF s # <<>> /\ IsSpace(s[Len(s)]) THEN TrimEnd(SubSeq(s, 1, Len(s) - 1)) ELSE s

\* String.prototype.trim
Trim(s) == TrimEnd(TrimStart(s))

\* s.split(sep) for a one-token separator: the pieces between separators,
\* empty pieces kept
RECURSIVE SplitOn(_, _, _)
SplitOn(s, sep, cur) ==
  IF s = <<>> THEN <<cur>>
  ELSE IF Head(s) = sep THEN <<cur>> \o SplitOn(Tail(s), sep, <<>>)
  ELSE SplitOn(Tail(s), sep, Append(cur, Head(s)))

Split(s, sep) == SplitOn(s, sep, <<>>)

\* pieces.join(sep)
RECURSIVE Join(_, _)
Join(pieces, sep) ==
  IF pieces = <<>> THEN <<>>
  ELSE IF Len(pieces) = 1 THEN pieces[1]
  ELSE pieces[1] \o <<sep>> \o Join(Tail(pieces), sep)

\* line.split(/\s+/): the pieces between maximal whitespace runs; a line that
\* starts with whitespace has the empty string as its first piece
RECURSIVE SplitWsFrom(_, _, _)
SplitWsFrom(s, cur, inWs) ==
  IF s = <<>> THEN <<cur>>
  ELSE IF IsSpace(Head(s))
       THEN IF inWs THEN SplitWsFrom(Tail(s), cur, TRUE)
            ELSE <<cur>> \o SplitWsFrom(Tail(s), <<>>, TRUE)
  ELSE SplitWsFrom(Tail(s), Append(cur, Head(s)), FALSE)

SplitWs(s) == SplitWsFrom(s, <<>>, FALSE)

\* gptoken's countTokens: an estimate that grows with the text
countTokens(s) == Len(s)

\* -------------------------------------------------------------- file system

\* The files other than the log: path |-> content, for the readable ones.
\* f3 has two lines, the first of them a directive line
Files ==
  (<<"f1">> :> <<"a">>) @@
  (<<"p1">> :> <<"hi">>) @@
  (<<"f3">> :> <<"#import", " ", "f1", NL, "hi">>) @@
  (<<"/home", "/f">> :> <<"a">>)

Readable(path) == path \in DOMAIN Files

\* Utils.normalizePath: a leading ~ becomes the home directory
normalizePath(p) ==
  IF p # <<>> /\ Head(p) = "~" THEN <<"/home">> \o Tail(p) ELSE p

\* ------------------------------------------------------------- importFiles

\* The regex without its ^\s* anchor: the word is looked for anywhere in the
\* line
MatchDirectiveAnywhere(line, word) ==
  \E i \in 1..(Len(line) - 2) :
    /\ line[i] = word
    /\ IsSpace(line[i + 1])
    /\ LET rest == TrimStart(SubSeq(line, i + 1, Len(line))) IN
         rest # <<>> /\ IsPathTok(Head(rest))

\* line.match(/^\s*<word>\s+[~\w\\./]+/)
MatchDirective(line, word) ==
  LET l == TrimStart(line) IN
    /\ Len(l) >= 3
    /\ l[1] = word
    /\ IsSpace(l[2])
    /\ LET rest == TrimStart(Tail(l)) IN rest # <<>> /\ IsPathTok(Head(rest))

\* The loop of importFiles over the lines still to process, given
\* modifiedLines and toDiffFiles so far; the result is the returned triple
RECURSIVE ImportLoop(_, _, _)
ImportLoop(lines, modifiedLines, toDiffFiles) ==
  IF lines = <<>>
  THEN [success |-> TRUE, text |-> Join(modifiedLines, NL), diffFiles |-> toDiffFiles]
  ELSE
    LET line == Head(lines)
        importFile == MatchDirective(line, "#import")
        diffFile == MatchDirective(line, "#diff")
    IN IF importFile \/ diffFile
       THEN LET fname == SplitWs(line)[2]
                filePath == normalizePath(fname)
                diffs == IF diffFile THEN Append(toDiffFiles, filePath) ELSE toDiffFiles
            IN IF Readable(filePath)
               THEN ImportLoop(Tail(lines),
                               modifiedLines \o Split(Files[filePath], NL), diffs)
               ELSE [success |-> FALSE,
                     text |-> <<"#import file ">> \o filePath \o <<" was not found">>,
                     diffFiles |-> diffs]
       ELSE ImportLoop(Tail(lines), Append(modifiedLines, line), toDiffFiles)

importFiles(content) == ImportLoop(Split(content, NL), <<>>, <<>>)

\* ---------------------------------------------------------------- the log

\* What JSON.stringify writes for a message, a log entry and the log array,
\* and what JSON.parse reads back: an object is written as the list of its
\* values in key order
StringifyMessage(m) == <<m.role, m.content>>

ParseMessage(t) == [role |-> t[1], content |-> t[2]]

StringifyEntry(e) ==
  <<[i \in 1..Len(e.messages) |-> StringifyMessage(e.messages[i])],
    e.time, e.tokens, e.cost, e.duration>>

ParseEntry(t) ==
  [messages |-> [i \in 1..Len(t[1]) |-> ParseMessage(t[1][i])],
   time |-> t[2], tokens |-> t[3], cost |-> t[4], duration |-> t[5]]

JSONstringify(logArray) == [i \in 1..Len(logArray) |-> StringifyEntry(logArray[i])]

JSONparse(fileText) == [i \in 1..Len(fileText) |-> ParseEntry(fileText[i])]

\* The log file: absent, or a file holding a text
NoFile == [exists |-> FALSE, text |-> <<>>]

FileWith(fileText) == [exists |-> TRUE, text |-> fileText]

\* appendToLog writing "[]" whether or not the file is there
EnsureLogFileAnew(file) == FileWith(JSONstringify(<<>>))

\* appendToLog, step 1: fs.accessSync, and fs.writeFileSync(LOG_FILE, "[]") when
\* it throws
EnsureLogFile(file) == IF file.exists THEN file ELSE FileWith(JSONstringify(<<>>))

\* appendToLog, step 2: fs.readFileSync and JSON.parse
ReadLogArray(file) == JSONparse(file.text)

\* appendToLog, step 3: logArray.push(jsonLog) and fs.writeFileSync
WriteLogArray(logArray, jsonLog) == FileWith(JSONstringify(Append(logArray, jsonLog)))

\* appendToLog run to completion with nothing in between
appendToLog(file, jsonLog) ==
  WriteLogArray(ReadLogArray(EnsureLogFile(file)), jsonLog)

\* array.slice(0, 1) where slice(-1) was meant: the first element
SliceFirst(array) == IF Len(array) = 0 THEN <<>> ELSE <<array[1]>>

\* array.slice(-1): the last element alone, or nothing for an empty array
SliceLast(array) == IF Len(array) = 0 THEN <<>> ELSE <<array[Len(array)]>>

\* getPrviousRequests: [threw |-> TRUE] when readFileSync throws on a missing
\* file, else the messages of logContents.slice(-1), or [] when there is none
getPrviousRequests(file) ==
  IF ~file.exists THEN [threw |-> TRUE, messages |-> <<>>]
  ELSE LET logContents == JSONparse(file.text)
           lastEntry == SliceLast(logContents)
       IN IF Len(lastEntry) = 0
          THEN [threw |-> FALSE, messages |-> <<>>]
          ELSE [threw |-> FALSE, messages |-> lastEntry[1].messages]

\* The log as a sequence of entries, a missing file counting as the empty one
LogEntries(file) == IF file.exists THEN JSONparse(file.text) ELSE <<>>

\* ------------------------------------------------------------------ inputs

\* Request texts: plain text, an #import of a readable file followed by
\* text, a #diff of a readable file, an #import of a missing file, and a
\* good directive followed by a bad one
Requests ==
  { <<"hi">>,
    <<"#import", " ", "f1", NL, "hi">>,
    <<"#diff", " ", "f1">>,
    <<"#import", " ", "nofile">>,
    <<"#diff", " ", "f1", NL, "#import", " ", "nofile", NL, "hi">> }

\* options.prompt: not given, a readable file, a missing file
Prompts == { <<>>, <<"p1">>, <<"nofile">> }

\* options.model: not given, or a model other than the default
Models == { "", "gpt-4" }

\* options.diff: not given, or a file name
DiffOptions == { <<>>, <<"f2">> }

\* The options of a command line that gives none
DefaultOptions ==
  [chat |-> FALSE, stream |-> FALSE, dryrun |-> FALSE, stats |-> FALSE,
   prompt |-> <<>>, model |-> "", save |-> FALSE, diff |-> <<>>]

\* The options commander hands to submitChat: every combination of --chat,
\* --stream, --dryrun and --prompt; --stats and --model with and without
\* --stream; --save and --diff with and without --stream
OptionSets ==
  { [DefaultOptions EXCEPT !.chat = c, !.stream = s, !.dryrun = d, !.prompt = p] :
      c \in BOOLEAN, s \in BOOLEAN, d \in BOOLEAN, p \in Prompts }
  \cup { [DefaultOptions EXCEPT !.stats = TRUE, !.stream = s, !.model = m] :
      s \in BOOLEAN, m \in Models }
  \cup { [DefaultOptions EXCEPT !.save = sv, !.diff = df, !.stream = s] :
      sv \in BOOLEAN, df \in DiffOptions, s \in BOOLEAN }

\* error.message of what createChatCompletion throws
ErrorMessages == { <<"timeout">>, <<"reset", " ">> }

\* choices[0].message.content of a batch completion ("" when there is none)
BatchTexts == { <<>>, <<"a">>, <<NL, "a", " ">> }

\* usage.total_tokens of a completion, 0 standing for no usage object
Usages == { 0, 7 }

\* The lines a streamed chunk is made of: the end marker, a delta with a
\* content (empty when the delta has none), a line that is not JSON
StreamLines ==
  { [kind |-> "done", text |-> <<>>],
    [kind |-> "malformed", text |-> <<>>] }
  \cup { [kind |-> "delta", text |-> t] :
            t \in { <<>>, <<"a">>, <<" ">>, <<NL, NL>>, <<NL, NL, "a">> } }

DoneLine == [kind |-> "done", text |-> <<>>]

\* A "data" event carries one line, or two: a line with the end marker after
\* it, or the end marker with a line after it; or three, a line that is not
\* JSON between two deltas
Chunks ==
  { <<l>> : l \in StreamLines }
  \cup { <<l, DoneLine>> : l \in StreamLines \ {DoneLine} }
  \cup { <<DoneLine, l>> : l \in StreamLines \ {DoneLine} }
  \cup { <<[kind |-> "delta", text |-> <<"a">>], [kind |-> "malformed", text |-> <<>>],
           [kind |-> "delta", text |-> <<"hi">>]>> }

\* The command lines: ask with every option set; input with no file name,
\* with an unreadable file, and with a readable one under the options that
\* matter after the exchange
CommandLines ==
  { [type |-> "ask", arg |-> "words", options |-> o] : o \in OptionSets }
  \cup { [type |-> "input", arg |-> a, options |-> DefaultOptions] :
            a \in {"none", "unreadable"} }
  \cup { [type |-> "input", arg |-> "file",
          options |-> [DefaultOptions EXCEPT !.diff = df, !.stream = s]] :
            df \in DiffOptions, s \in BOOLEAN }

\* ------------------------------------------------------------------- state

VARIABLES
  logFile,     \* the file Settings.getSetting("LOG_FILE") names
  runs,        \* CLI invocations started so far
  pc,          \* where the current invocation is
  type,        \* submitChat's type argument: "ask" or "input"
  options,     \* this.options
  imported,    \* importFiles' result [success, text, diffFiles], once it was called
  messages,    \* fetch's messages array (streamResponse's messages is the same array)
  response,    \* streamResponse's response accumulator
  first,       \* streamResponse's first flag
  chunks,      \* "data" events handled on the current stream
  received,    \* the lines the "data" listener has looked at, in arrival order
  sent,        \* the messages argument of each createChatCompletion call made
  thrown,      \* the error.message createChatCompletion threw, if it did
  gptResults,  \* what gpt.fetch resolved with, once it has
  returned,    \* what fetch returned to submitChat, once it has
  errors,      \* what this.error printed
  shown,       \* the dry-run and stats lines printed
  handoff,     \* the saveFiles call made and whether the diff viewer was spawned
  logAtStart,  \* the log file as the current invocation found it
  appended,    \* every jsonLog handed to appendToLog, in call order
  conc,        \* two processes inside appendToLog at once (ConcSpec)
  expand       \* importFiles run line by line on a request text (ExpandSpec)

vars ==
  <<logFile, runs, pc, type, options, imported, messages, response, first,
    chunks, received, sent, thrown, gptResults, returned, errors, shown, handoff, logAtStart,
    appended, conc, expand>>

Message(role, content) == [role |-> role, content |-> content]

\* An entry an earlier exchange ("hi" answered by "a") left in the log
EarlierEntry ==
  [messages |-> <<Message("user", <<"hi">>), Message("assistant", <<"a">>)>>,
   time |-> 0, tokens |-> 7, cost |-> [text |-> "$", tokens |-> 7], duration |-> 0]

InitialLogs ==
  { NoFile, FileWith(JSONstringify(<<>>)), FileWith(JSONstringify(<<EarlierEntry>>)) }

\* The processes of ConcSpec
Procs == {1, 2}

\* No process of ConcSpec exists
ConcOff ==
  [pc |-> [p \in Procs |-> "off"], found |-> [p \in Procs |-> FALSE],
   logArray |-> [p \in Procs |-> <<>>], jsonLog |-> [p \in Procs |-> EarlierEntry],
   writers |-> <<>>]

\* importFiles is not being stepped through
ExpandOff ==
  [pc |-> "off", content |-> <<>>, lines |-> <<>>, modifiedLines |-> <<>>,
   toDiffFiles |-> <<>>, reads |-> <<>>, result |-> <<>>, again |-> FALSE,
   before |-> <<>>]

\* The state of a process that has not called submitChat yet
FreshProcess ==
  /\ pc = "idle"
  /\ type = "ask"
  /\ options = DefaultOptions
  /\ imported = <<>>
  /\ messages = <<>>
  /\ response = <<>>
  /\ first = TRUE
  /\ chunks = 0
  /\ received = <<>>
  /\ sent = <<>>
  /\ thrown = <<>>
  /\ gptResults = <<>>
  /\ returned = <<>>
  /\ errors = <<>>
  /\ shown = <<>>
  /\ handoff = <<>>

Init ==
  /\ logFile \in InitialLogs
  /\ runs = 0
  /\ FreshProcess
  /\ logAtStart = logFile
  /\ appended = <<>>
  /\ conc = ConcOff
  /\ expand = ExpandOff

\* ------------------------------------------------------- GptRequest.fetch

\* The cost string of fetch
CostOf(opts, tokens) ==
  IF opts.model = "" \/ opts.model = "gpt-3.5-turbo"
  THEN [text |-> "$", tokens |-> tokens]
  ELSE [text |-> "Cost only available for GPT-3.5-turbo", tokens |-> 0]

\* The tokens variable of fetch: the backend's count, or the local estimate
\* when the backend's count is 0
TokensOf(txt, gptResult) ==
  IF gptResult.tokens = 0 THEN countTokens(txt \o gptResult.text) ELSE gptResult.tokens

\* The jsonLog fetch builds
JsonLogOf(opts, txt, msgs, gptResult, now, elapsed) ==
  [messages |-> Append(msgs, Message("assistant", Trim(gptResult.text))),
   time |-> now,
   tokens |-> TokensOf(txt, gptResult),
   cost |-> CostOf(opts, TokensOf(txt, gptResult)),
   duration |-> elapsed]

\* The stats line fetch prints: tokens and cost when tokens > 0, the elapsed
\* time alone otherwise, and the note on estimates when streaming
StatsOf(opts, txt, gptResult) ==
  IF opts.stats
  THEN LET tokens == TokensOf(txt, gptResult) IN
       <<[kind |-> "stats",
          withTokens |-> tokens > 0,
          tokens |-> IF tokens > 0 THEN tokens ELSE 0,
          cost |-> CostOf(opts, IF tokens > 0 THEN tokens ELSE 0),
          estimateNote |-> opts.stream]>>
  ELSE <<>>

\* The hand-off taking the first #diff path although options.diff is given
HandoffOfFirstTarget(t, opts, diffs, resp, newFile) ==
  IF t = "input" \/ opts.save
  THEN LET diffFile == IF Len(diffs) > 0 THEN diffs[1] ELSE opts.diff
       IN <<[response |-> resp, diffFile |-> diffFile, save |-> opts.save,
             newFile |-> newFile, spawned |-> (diffFile # <<>> /\ newFile)]>>
  ELSE <<>>

\* submitChat after fetch has returned: the saveFiles call and the spawn of
\* the diff command; newFile tells whether saveFiles returned a file name
HandoffOf(t, opts, diffs, resp, newFile) ==
  IF t = "input" \/ opts.save
  THEN LET diffFile == IF opts.diff = <<>> /\ Len(diffs) > 0 THEN diffs[1] ELSE opts.diff
       IN <<[response |-> resp, diffFile |-> diffFile, save |-> opts.save,
             newFile |-> newFile, spawned |-> (diffFile # <<>> /\ newFile)]>>
  ELSE <<>>

\* fetch from the point gpt.fetch has resolved with gptResult, and submitChat
\* after it
FetchResume(t, opts, txt, diffs, msgs, gptResult, now, elapsed, newFile) ==
  LET jsonLog == JsonLogOf(opts, txt, msgs, gptResult, now, elapsed) IN
    /\ gptResults' = <<gptResult>>
    /\ messages' = jsonLog.messages
    /\ shown' = StatsOf(opts, txt, gptResult)
    /\ logFile' = appendToLog(logFile, jsonLog)
    /\ appended' = Append(appended, jsonLog)
    /\ returned' = <<Trim(gptResult.text)>>
    /\ handoff' = HandoffOf(t, opts, diffs, Trim(gptResult.text), newFile)
    /\ pc' = "returned"

\* The catch resolving with the bare message, the "Error:" prefix left out
ErrorResultBare(message) == [text |-> message, tokens |-> 0]

\* The result the backend wrapper makes of a thrown error
ErrorResult(message) == [text |-> <<"Error:">> \o message, tokens |-> 0]

\* -------------------------------------------------- GptRequest.submitChat

\* submitChat ends before fetch is called
EndsEarly(p, errs, shw, result) ==
  /\ pc' = p
  /\ errors' = errs
  /\ shown' = shw
  /\ imported' = result
  /\ messages' = <<>>
  /\ sent' = <<>>
  /\ gptResults' = <<>>
  /\ returned' = <<>>
  /\ handoff' = <<>>
  /\ UNCHANGED <<logFile, appended>>

\* fetch is suspended on the createChatCompletion call made with msgs
Suspends(p, result, msgs) ==
  /\ pc' = p
  /\ errors' = <<>>
  /\ shown' = <<>>
  /\ imported' = result
  /\ messages' = msgs
  /\ sent' = <<msgs>>
  /\ gptResults' = <<>>
  /\ returned' = <<>>
  /\ handoff' = <<>>
  /\ UNCHANGED <<logFile, appended>>

\* fetch never reading the log: messages stays the empty array
PreviousOfNone(opts, file) == [threw |-> FALSE, messages |-> <<>>]

\* fetch's "if (this.options.chat) messages = this.getPrviousRequests()"
PreviousOf(opts, file) ==
  IF opts.chat THEN getPrviousRequests(file) ELSE [threw |-> FALSE, messages |-> <<>>]

\* fetch starting from an empty array although previous requests were read
QueriesOfFresh(previous, request) == <<Message("user", request)>>

\* fetch's messages.push({ role: "user", content: request })
QueriesOf(previous, request) == Append(previous, Message("user", request))

\* streamResponse's messages.push({ role: "system", content: promptContent }),
\* done when options.prompt is given
WithPrompt(opts, queries) ==
  IF opts.prompt = <<>> THEN queries
  ELSE Append(queries, Message("system", Files[opts.prompt]))

\* submitChat without its "if (!success) return"
RouteNoSuccessCheck(t, arg, expanded, opts, previous) ==
  IF t = "input" /\ arg = "none" THEN "noInputFile"
  ELSE IF t = "input" /\ arg = "unreadable" THEN "inputUnreadable"
  ELSE IF opts.dryrun THEN "dryrun"
  ELSE IF previous.threw THEN "logUnreadable"
  ELSE IF ~opts.stream THEN "batch"
  ELSE IF opts.prompt # <<>> /\ ~Readable(opts.prompt) THEN "promptUnreadable"
  ELSE "stream"

\* submitChat without its "if (options.dryrun) return"
RouteNoDryrunCheck(t, arg, expanded, opts, previous) ==
  IF t = "input" /\ arg = "none" THEN "noInputFile"
  ELSE IF t = "input" /\ arg = "unreadable" THEN "inputUnreadable"
  ELSE IF ~expanded.success THEN "expansionFailed"
  ELSE IF previous.threw THEN "logUnreadable"
  ELSE IF ~opts.stream THEN "batch"
  ELSE IF opts.prompt # <<>> /\ ~Readable(opts.prompt) THEN "promptUnreadable"
  ELSE "stream"

\* The way submitChat, fetch and LLM.fetch take, decided by their tests and
\* early returns in the order the code makes them
Route(t, arg, expanded, opts, previous) ==
  IF t = "input" /\ arg = "none" THEN "noInputFile"
  ELSE IF t = "input" /\ arg = "unreadable" THEN "inputUnreadable"
  ELSE IF ~expanded.success THEN "expansionFailed"
  ELSE IF opts.dryrun THEN "dryrun"
  ELSE IF previous.threw THEN "logUnreadable"
  ELSE IF ~opts.stream THEN "batch"
  ELSE IF opts.prompt # <<>> /\ ~Readable(opts.prompt) THEN "promptUnreadable"
  ELSE "stream"

\* One CLI invocation, from the call of submitChat(t, args, opts) to the first
\* point where it waits for the backend, or to its end when it does not get
\* that far.  arg tells what args[1] is for the input command: "none", the
\* name of an "unreadable" file, or of a file holding req; for ask, req is the
\* joined words.  newFile is saveFiles' answer, used when the exchange ends
\* within this step.
submitChat(t, arg, req, opts, newFile) ==
  /\ pc = "idle"
  /\ type' = t
  /\ options' = opts
  /\ UNCHANGED <<runs, logAtStart, response, first, chunks, received, thrown, conc,
                 expand>>
  /\ LET expanded == importFiles(req)
         previous == PreviousOf(opts, logFile)
         queries == QueriesOf(previous.messages, expanded.text)
         route == Route(t, arg, expanded, opts, previous)
     IN
       CASE route = "noInputFile" ->
              EndsEarly("returned", <<<<"Need input file name in input command">>>>,
                        <<>>, <<>>)
         [] route = "inputUnreadable" ->
              EndsEarly("threw", <<>>, <<>>, <<>>)
         [] route = "expansionFailed" ->
              EndsEarly("returned", <<expanded.text>>, <<>>, <<expanded>>)
         [] route = "dryrun" ->
              EndsEarly("returned", <<>>,
                        <<[kind |-> "dryrun", text |-> expanded.text,
                           tokens |-> countTokens(expanded.text)]>>,
                        <<expanded>>)
         [] route = "logUnreadable" ->
              EndsEarly("threw", <<>>, <<>>, <<expanded>>)
         [] route = "batch" ->
              Suspends("batch", <<expanded>>, queries)
         [] route = "stream" ->
              Suspends("connecting", <<expanded>>, WithPrompt(opts, queries))
         [] route = "promptUnreadable" ->
              /\ errors' = <<>>
              /\ imported' = <<expanded>>
              /\ sent' = <<>>
              /\ FetchResume(t, opts, expanded.text, expanded.diffFiles, queries,
                             ErrorResult(<<"ENOENT">> \o opts.prompt),
                             runs, chunks, newFile)

\* ---------------------------------------------------------------- LLM.fetch

\* What the actions after the backend call leave alone
InvocationFrame ==
  UNCHANGED <<runs, type, options, imported, sent, errors, logAtStart, conc, expand>>

\* createChatCompletion resolves (non-streaming): text is
\* choices[0].message.content, usage is usage.total_tokens
BatchReturns(txt, usage, newFile) ==
  /\ pc = "batch"
  /\ FetchResume(type, options, imported[1].text, imported[1].diffFiles, messages,
                 [text |-> txt, tokens |-> usage], runs, chunks, newFile)
  /\ UNCHANGED <<response, first, chunks, received>>
  /\ UNCHANGED thrown
  /\ InvocationFrame

\* createChatCompletion throws (non-streaming)
BatchThrows(message, newFile) ==
  /\ pc = "batch"
  /\ FetchResume(type, options, imported[1].text, imported[1].diffFiles, messages,
                 ErrorResult(message), runs, chunks, newFile)
  /\ UNCHANGED <<response, first, chunks, received>>
  /\ thrown' = <<message>>
  /\ InvocationFrame

\* ------------------------------------------------------- LLM.streamResponse

\* createChatCompletion throws (streaming): the catch resolves the promise
StreamThrows(message, newFile) ==
  /\ pc = "connecting"
  /\ FetchResume(type, options, imported[1].text, imported[1].diffFiles, messages,
                 ErrorResult(message), runs, chunks, newFile)
  /\ UNCHANGED <<response, first, chunks, received>>
  /\ thrown' = <<message>>
  /\ InvocationFrame

\* createChatCompletion resolves (streaming) and the "data" listener is set
StreamOpens ==
  /\ pc = "connecting"
  /\ pc' = "streaming"
  /\ UNCHANGED <<logFile, messages, response, first, chunks, received, gptResults,
                 returned, shown, handoff, appended>>
  /\ UNCHANGED thrown
  /\ InvocationFrame

\* text.replace(/\n+/g, "\n")
RECURSIVE CollapseNewlines(_)
CollapseNewlines(t) ==
  IF Len(t) < 2 THEN t
  ELSE IF t[1] = NL /\ t[2] = NL THEN CollapseNewlines(Tail(t))
  ELSE <<t[1]>> \o CollapseNewlines(Tail(t))

\* text.match(/^\s*$/)
IsBlank(t) == \A i \in 1..Len(t) : IsSpace(t[i])

\* The loop dropping every whitespace-only content, not the first alone
RECURSIVE HandleLinesDropBlank(_, _, _)
HandleLinesDropBlank(lines, acc, fst) ==
  IF lines = <<>> THEN [response |-> acc, first |-> fst, done |-> FALSE]
  ELSE LET line == Head(lines) IN
    IF line.kind = "done" THEN [response |-> acc, first |-> fst, done |-> TRUE]
    ELSE IF line.kind = "malformed" THEN HandleLinesDropBlank(Tail(lines), acc, fst)
    ELSE IF line.text = <<>> THEN HandleLinesDropBlank(Tail(lines), acc, fst)
    ELSE IF IsBlank(line.text) THEN HandleLinesDropBlank(Tail(lines), acc, FALSE)
    ELSE HandleLinesDropBlank(Tail(lines), acc \o CollapseNewlines(line.text), FALSE)

\* The loop without the try/catch around JSON.parse: the exception ends the
\* listener's run over the chunk
RECURSIVE HandleLinesNoCatch(_, _, _)
HandleLinesNoCatch(lines, acc, fst) ==
  IF lines = <<>> THEN [response |-> acc, first |-> fst, done |-> FALSE]
  ELSE LET line == Head(lines) IN
    IF line.kind = "done" THEN [response |-> acc, first |-> fst, done |-> TRUE]
    ELSE IF line.kind = "malformed" THEN [response |-> acc, first |-> fst, done |-> FALSE]
    ELSE IF line.text = <<>> THEN HandleLinesNoCatch(Tail(lines), acc, fst)
    ELSE IF fst /\ IsBlank(line.text) THEN HandleLinesNoCatch(Tail(lines), acc, FALSE)
    ELSE HandleLinesNoCatch(Tail(lines), acc \o CollapseNewlines(line.text), FALSE)

\* The "data" listener's loop over the lines of one chunk, from the
\* accumulator acc and the flag fst: the accumulator and flag it leaves, and
\* whether it reached the end marker (the lines after it are not looked at)
RECURSIVE HandleLines(_, _, _)
HandleLines(lines, acc, fst) ==
  IF lines = <<>> THEN [response |-> acc, first |-> fst, done |-> FALSE]
  ELSE LET line == Head(lines) IN
    IF line.kind = "done" THEN [response |-> acc, first |-> fst, done |-> TRUE]
    ELSE IF line.kind = "malformed" THEN HandleLines(Tail(lines), acc, fst)
    ELSE IF line.text = <<>> THEN HandleLines(Tail(lines), acc, fst)
    ELSE IF fst /\ IsBlank(line.text) THEN HandleLines(Tail(lines), acc, FALSE)
    ELSE HandleLines(Tail(lines), acc \o CollapseNewlines(line.text), FALSE)

\* The lines of a chunk the listener's loop gets to: those up to the end
\* marker, the marker included
RECURSIVE LinesLookedAt(_)
LinesLookedAt(lines) ==
  IF lines = <<>> THEN <<>>
  ELSE IF Head(lines).kind = "done" THEN <<Head(lines)>>
  ELSE <<Head(lines)>> \o LinesLookedAt(Tail(lines))

\* A "data" event: the listener runs over the chunk's lines; on the end
\* marker the promise resolves with the accumulated text and res.data.usage
StreamData(chunk, usage, newFile) ==
  /\ pc = "streaming"
  /\ chunks < MaxChunks
  /\ chunks' = chunks + 1
  /\ received' = received \o LinesLookedAt(chunk)
  /\ LET after == HandleLines(chunk, response, first) IN
       /\ response' = after.response
       /\ first' = after.first
       /\ IF after.done
          THEN FetchResume(type, options, imported[1].text, imported[1].diffFiles, messages,
                           [text |-> after.response, tokens |-> usage],
                           runs, chunks + 1, newFile)
          ELSE UNCHANGED <<pc, logFile, messages, gptResults, returned, shown,
                           handoff, appended>>
  /\ UNCHANGED thrown
  /\ InvocationFrame

\* An "error" event on the response stream: no listener is registered for it,
\* so the emitter throws and the process dies with the promise pending
StreamError ==
  /\ pc = "streaming"
  /\ pc' = "threw"
  /\ UNCHANGED <<logFile, messages, response, first, chunks, received, gptResults,
                 returned, shown, handoff, appended>>
  /\ UNCHANGED thrown
  /\ InvocationFrame

\* The response stream ends or closes without the end marker: nothing
\* resolves the promise, and the process ends once nothing is left to wait for
StreamCloses ==
  /\ pc = "streaming"
  /\ pc' = "abandoned"
  /\ UNCHANGED <<logFile, messages, response, first, chunks, received, gptResults,
                 returned, shown, handoff, appended>>
  /\ UNCHANGED thrown
  /\ InvocationFrame

\* ------------------------------------------------------------ specification

\* ---------------------------------------------------------- one invocation

\* One CLI invocation (one process) against the log it finds
Next ==
  \/ \E c \in CommandLines, req \in Requests, newFile \in BOOLEAN :
       submitChat(c.type, c.arg, req, c.options, newFile)
  \/ \E txt \in BatchTexts, usage \in Usages, newFile \in BOOLEAN :
       BatchReturns(txt, usage, newFile)
  \/ \E message \in ErrorMessages, newFile \in BOOLEAN : BatchThrows(message, newFile)
  \/ \E message \in ErrorMessages, newFile \in BOOLEAN : StreamThrows(message, newFile)
  \/ StreamOpens
  \/ \E chunk \in Chunks, usage \in Usages, newFile \in BOOLEAN :
       StreamData(chunk, usage, newFile)
  \/ StreamError
  \/ StreamCloses

Spec == Init /\ [][Next]_vars

\* ------------------------------------------- invocations one after the other

\* The invocation is over: submitChat returned, or threw, or the process
\* ended with the promise pending
Over == pc \in {"returned", "threw", "abandoned"}

\* The next CLI invocation starts: a new process, a new GptRequest
NewProcess ==
  /\ Over
  /\ runs + 1 < MaxRuns
  /\ runs' = runs + 1
  /\ pc' = "idle"
  /\ type' = "ask"
  /\ options' = DefaultOptions
  /\ imported' = <<>>
  /\ messages' = <<>>
  /\ response' = <<>>
  /\ first' = TRUE
  /\ chunks' = 0
  /\ received' = <<>>
  /\ sent' = <<>>
  /\ thrown' = <<>>
  /\ gptResults' = <<>>
  /\ returned' = <<>>
  /\ errors' = <<>>
  /\ shown' = <<>>
  /\ handoff' = <<>>
  /\ logAtStart' = logFile
  /\ UNCHANGED <<logFile, appended, conc, expand>>

\* The command lines, requests and backend answers of SessionSpec: ask with
\* and without --chat and --stream, and a streamed chat with a prompt file
SessionCommandLines ==
  { [type |-> "ask", arg |-> "words",
     options |-> [DefaultOptions EXCEPT !.chat = c, !.stream = s]] :
       c \in BOOLEAN, s \in BOOLEAN }
  \cup { [type |-> "ask", arg |-> "words",
          options |-> [DefaultOptions EXCEPT !.chat = TRUE, !.stream = TRUE,
                                             !.prompt = <<"p1">>]] }

SessionRequests == { <<"hi">>, <<"#diff", " ", "f1">>, <<"#import", " ", "nofile">> }

SessionChunks ==
  { <<[kind |-> "delta", text |-> <<"a">>]>>, <<DoneLine>> }

\* CLI invocations run one after the other against one log file
SessionNext ==
  \/ NewProcess
  \/ \E c \in SessionCommandLines, req \in SessionRequests :
       submitChat(c.type, c.arg, req, c.options, FALSE)
  \/ BatchReturns(<<NL, "a">>, 7, FALSE)
  \/ \E message \in ErrorMessages : BatchThrows(message, FALSE)
  \/ \E message \in ErrorMessages : StreamThrows(message, FALSE)
  \/ StreamOpens
  \/ \E chunk \in SessionChunks : StreamData(chunk, 0, FALSE)
  \/ StreamError
  \/ StreamCloses

SessionSpec == Init /\ [][SessionNext]_vars

\* ------------------------------------- two invocations inside appendToLog

\* The jsonLog of an exchange that asked "hi" (time now) and got answer
ExchangeEntry(now, answer) ==
  JsonLogOf(DefaultOptions, <<"hi">>, <<Message("user", <<"hi">>)>>,
            [text |-> answer, tokens |-> 0], now, 0)

ConcEntries == { ExchangeEntry(1, <<"a">>), ExchangeEntry(2, <<"Error:", "timeout">>) }

\* Two processes have each reached this.appendToLog(jsonLog)
ConcInit ==
  /\ logFile \in InitialLogs
  /\ runs = 0
  /\ FreshProcess
  /\ logAtStart = logFile
  /\ appended = <<>>
  /\ \E e1 \in ConcEntries, e2 \in ConcEntries :
       conc = [ConcOff EXCEPT !.pc = [p \in Procs |-> "access"],
                              !.jsonLog = (1 :> e1) @@ (2 :> e2)]
  /\ expand = ExpandOff

ConcFrame ==
  UNCHANGED <<runs, pc, type, options, imported, messages, response, first,
              chunks, received, sent, thrown, gptResults, returned, errors, shown, handoff,
              logAtStart, expand>>

\* fs.accessSync(LOG_FILE): throws when the file is missing
ConcAccess(p) ==
  /\ conc.pc[p] = "access"
  /\ conc' = [conc EXCEPT !.pc[p] = IF logFile.exists THEN "read" ELSE "create",
                          !.found[p] = logFile.exists]
  /\ UNCHANGED <<logFile, appended>>
  /\ ConcFrame

\* the catch: fs.writeFileSync(LOG_FILE, "[]")
ConcCreate(p) ==
  /\ conc.pc[p] = "create"
  /\ logFile' = FileWith(JSONstringify(<<>>))
  /\ conc' = [conc EXCEPT !.pc[p] = "read"]
  /\ UNCHANGED appended
  /\ ConcFrame

\* fs.readFileSync(LOG_FILE) and JSON.parse
ConcRead(p) ==
  /\ conc.pc[p] = "read"
  /\ conc' = [conc EXCEPT !.pc[p] = "write", !.logArray[p] = ReadLogArray(logFile)]
  /\ UNCHANGED <<logFile, appended>>
  /\ ConcFrame

\* The write done under a lock held since before the read: the entry is
\* appended to what the file holds now
ConcWriteLocked(p) ==
  /\ conc.pc[p] = "write"
  /\ logFile' = appendToLog(logFile, conc.jsonLog[p])
  /\ appended' = Append(appended, conc.jsonLog[p])
  /\ conc' = [conc EXCEPT !.pc[p] = "done", !.writers = Append(@, p)]
  /\ ConcFrame

\* logArray.push(jsonLog) and fs.writeFileSync(LOG_FILE, ...)
ConcWrite(p) ==
  /\ conc.pc[p] = "write"
  /\ logFile' = WriteLogArray(conc.logArray[p], conc.jsonLog[p])
  /\ appended' = Append(appended, conc.jsonLog[p])
  /\ conc' = [conc EXCEPT !.pc[p] = "done", !.writers = Append(@, p)]
  /\ ConcFrame

ConcNext ==
  \E p \in Procs : ConcAccess(p) \/ ConcCreate(p) \/ ConcRead(p) \/ ConcWrite(p)

ConcSpec == ConcInit /\ [][ConcNext]_vars

\* --------------------------------------------- importFiles, line by line

\* The lines request texts are made of: text, the empty line, #import and
\* #diff of readable and of missing files, with and without whitespace before
\* the '#', a path that starts with ~, a file that itself holds a directive
\* line, and a line with a directive after other text
LineShapes ==
  { <<"hi">>,
    <<>>,
    <<"#import", " ", "f1">>,
    <<" ", "#import", " ", "f1">>,
    <<"#import", " ", "nofile">>,
    <<"#import", " ", "f3">>,
    <<"#diff", " ", "f1">>,
    <<" ", "#diff", " ", "f1">>,
    <<"#diff", " ", "~", "/f">>,
    <<"#diff", " ", "nofile">>,
    <<"hi", " ", "#import", " ", "f1">> }

\* The request texts: one to MaxLines lines joined by newlines
ExpandContents ==
  { Join(ls, NL) : ls \in UNION { [1..n -> LineShapes] : n \in 1..MaxLines } }

\* importFiles(content) has been called and stands before its loop
ImportCalled(content, again, before) ==
  [pc |-> "loop", content |-> content, lines |-> Split(content, NL),
   modifiedLines |-> <<>>, toDiffFiles |-> <<>>, reads |-> <<>>, result |-> <<>>,
   again |-> again, before |-> before]

ExpandInit ==
  /\ logFile = NoFile
  /\ runs = 0
  /\ FreshProcess
  /\ logAtStart = logFile
  /\ appended = <<>>
  /\ conc = ConcOff
  /\ \E content \in ExpandContents : expand = ImportCalled(content, FALSE, <<>>)

ExpandFrame ==
  UNCHANGED <<logFile, runs, pc, type, options, imported, messages, response,
              first, chunks, received, sent, thrown, gptResults, returned, errors, shown,
              handoff, logAtStart, appended, conc>>

\* One iteration of importFiles' loop; reads records the paths handed to
\* fs.readFileSync
ImportLine ==
  /\ expand.pc = "loop"
  /\ expand.lines # <<>>
  /\ LET line == Head(expand.lines)
         importFile == MatchDirective(line, "#import")
         diffFile == MatchDirective(line, "#diff")
         fname == SplitWs(line)[2]
         filePath == normalizePath(fname)
         diffs == IF diffFile THEN Append(expand.toDiffFiles, filePath)
                  ELSE expand.toDiffFiles
     IN expand' =
          IF importFile \/ diffFile
          THEN IF Readable(filePath)
               THEN [expand EXCEPT !.lines = Tail(@),
                                   !.modifiedLines = @ \o Split(Files[filePath], NL),
                                   !.toDiffFiles = diffs,
                                   !.reads = Append(@, filePath)]
               ELSE [expand EXCEPT !.pc = "returned",
                                   !.lines = Tail(@),
                                   !.toDiffFiles = diffs,
                                   !.reads = Append(@, filePath),
                                   !.result =
                                     <<[success |-> FALSE,
                                        text |-> <<"#import file ">> \o filePath
                                                   \o <<" was not found">>,
                                        diffFiles |-> diffs]>>]
          ELSE [expand EXCEPT !.lines = Tail(@), !.modifiedLines = Append(@, line)]
  /\ ExpandFrame

\* The loop is through: return [true, modifiedLines.join("\n"), toDiffFiles]
ImportReturn ==
  /\ expand.pc = "loop"
  /\ expand.lines = <<>>
  /\ expand' = [expand EXCEPT !.pc = "returned",
                              !.result = <<[success |-> TRUE,
                                            text |-> Join(expand.modifiedLines, NL),
                                            diffFiles |-> expand.toDiffFiles]>>]
  /\ ExpandFrame

\* importFiles is called once more, on the text it returned
ImportAgain ==
  /\ expand.pc = "returned"
  /\ ~expand.again
  /\ expand.result[1].success
  /\ expand' = ImportCalled(expand.result[1].text, TRUE, <<expand.content>>)
  /\ ExpandFrame

ExpandNext == ImportLine \/ ImportReturn \/ ImportAgain

ExpandSpec == ExpandInit /\ [][ExpandNext]_vars

\* ------------------------------------------------------------------ claims

\* importFiles was called and reported failure
ExpansionFailed == imported # <<>> /\ ~imported[1].success

\* importFiles was called and succeeded
Expanded == imported # <<>> /\ imported[1].success

\* The entry the log ends with
LastEntry(file) == LogEntries(file)[Len(LogEntries(file))]

\* C1: when the directive expansion fails, no backend call is made, nothing
\* is resolved or returned, and the log file is as the invocation found it,
\* whatever the chat, stream and dryrun options are.
C1_FailedExpansionTouchesNothing ==
  ExpansionFailed =>
    /\ pc = "returned"
    /\ errors = <<imported[1].text>>
    /\ sent = <<>>
    /\ gptResults = <<>>
    /\ logFile = logAtStart
    /\ appended = <<>>

C1_Witness ==
  /\ ExpansionFailed
  /\ options.chat /\ options.stream /\ ~options.dryrun
  /\ logAtStart.exists

\* C2: a dry run with a successful expansion returns without a backend call
\* and with the log file untouched; it does not read the log either, so it
\* returns also in chat mode with no log file.
C2_DryRunTouchesNothing ==
  (Expanded /\ options.dryrun) =>
    /\ pc = "returned"
    /\ sent = <<>>
    /\ gptResults = <<>>
    /\ logFile = logAtStart
    /\ appended = <<>>

C2_Witness ==
  /\ Expanded /\ options.dryrun /\ options.chat
  /\ ~logAtStart.exists
  /\ shown # <<>>

\* C3 (as claimed): in chat mode against a log that is an empty array or is
\* absent, getPrviousRequests yields the empty sequence, the exchange does
\* not throw before the backend call, and what it sends starts with the new
\* user message.
C3_EmptyOrAbsentLogProceeds ==
  (Expanded /\ ~options.dryrun /\ options.chat /\ LogEntries(logAtStart) = <<>>) =>
    /\ ~getPrviousRequests(logAtStart).threw
    /\ getPrviousRequests(logAtStart).messages = <<>>
    /\ pc = "threw" => sent # <<>>
    /\ sent # <<>> => sent[1][1] = Message("user", imported[1].text)

\* C4: after one or more appendToLog calls made one after the other, from an
\* absent or an existing log, getPrviousRequests returns the messages of the
\* most recently appended entry.
C4_LastAppendedIsReplayed ==
  appended # <<>> =>
    /\ ~getPrviousRequests(logFile).threw
    /\ getPrviousRequests(logFile).messages = appended[Len(appended)].messages

C4_Witness ==
  /\ Len(appended) >= 2
  /\ appended[1].messages # appended[Len(appended)].messages
  /\ Len(LogEntries(logFile)) > Len(appended)

\* C5: under invocations run one after the other, a step that calls
\* appendToLog leaves the log as it was (an absent file counting as empty)
\* with the new entry added at the end, and no other step changes the log.
C5_LogOnlyGrowsAtItsEnd ==
  [][IF appended' # appended
     THEN LogEntries(logFile') =
            Append(LogEntries(logFile), appended'[Len(appended')])
     ELSE logFile' = logFile]_vars

C5_Witness ==
  /\ appended # <<>>
  /\ Len(LogEntries(logFile)) >= 2
  /\ runs >= 1

\* Both processes of ConcSpec have finished appendToLog
BothDone == \A p \in Procs : conc.pc[p] = "done"

\* C6: when two invocations inside appendToLog have read the same log
\* content, the log after both writes is that content plus the last
\* writer's entry alone: the first writer's entry is lost.
C6_SameReadLosesAnEntry ==
  (BothDone /\ conc.logArray[1] = conc.logArray[2]) =>
    LET last == conc.writers[Len(conc.writers)] IN
      LogEntries(logFile) = Append(conc.logArray[last], conc.jsonLog[last])

C6_Witness ==
  /\ BothDone
  /\ conc.logArray[1] = conc.logArray[2]
  /\ conc.jsonLog[1] # conc.jsonLog[2]
  /\ Len(appended) = 2
  /\ Len(LogEntries(logFile)) = Len(conc.logArray[1]) + 1
  /\ \A i \in 1..Len(LogEntries(logFile)) :
       LogEntries(logFile)[i] # conc.jsonLog[conc.writers[1]]

C8_LogRecordsZeroTokens ==
  (sent # <<>> /\ thrown = <<>> /\ gptResults # <<>> /\ gptResults[1].tokens = 0) =>
    /\ LastEntry(logFile).tokens = 0
    /\ options.stats =>
         shown[1].tokens = countTokens(imported[1].text \o gptResults[1].text)

\* The messages the exchange starts from: those of the last entry of the log
\* it found in chat mode, none otherwise
StartingMessages ==
  IF options.chat /\ LogEntries(logAtStart) # <<>>
  THEN LastEntry(logAtStart).messages
  ELSE <<>>

\* C9 (as claimed): what is sent is the starting messages followed by the one
\* new user message, and the appended entry holds that followed by the one
\* assistant message, for every combination of stream, chat and prompt.
C9_SentIsPreviousPlusUser ==
  sent # <<>> =>
    /\ sent = << StartingMessages \o <<Message("user", imported[1].text)>> >>
    /\ returned # <<>> =>
         LastEntry(logFile).messages =
           StartingMessages \o <<Message("user", imported[1].text),
                                 Message("assistant", Trim(gptResults[1].text))>>

\* The system message streamResponse adds when --stream and --prompt are given
PromptMessages ==
  IF options.stream /\ options.prompt # <<>>
  THEN <<Message("system", Files[options.prompt])>>
  ELSE <<>>

\* C9 (amended): what is sent is the starting messages, the one new user
\* message and, when stream and prompt are both set, one system message with
\* the prompt file's content; the appended entry holds what was sent
\* followed by the one assistant message with the trimmed response.  When
\* the prompt file cannot be read nothing is sent, and the entry holds the
\* starting messages, the user message and the assistant message.
C9_SentIsPreviousPlusUserPlusPrompt ==
  /\ sent # <<>> =>
       /\ sent = << StartingMessages \o <<Message("user", imported[1].text)>>
                      \o PromptMessages >>
       /\ returned # <<>> =>
            /\ returned = <<Trim(gptResults[1].text)>>
            /\ LastEntry(logFile).messages =
                 sent[1] \o <<Message("assistant", returned[1])>>
  /\ (sent = <<>> /\ returned # <<>>) =>
       /\ options.stream /\ options.prompt # <<>> /\ ~Readable(options.prompt)
       /\ LastEntry(logFile).messages =
            StartingMessages \o <<Message("user", imported[1].text),
                                  Message("assistant", returned[1])>>

C9_Witness ==
  /\ sent # <<>> /\ returned # <<>>
  /\ options.stream /\ options.chat /\ options.prompt # <<>>
  /\ StartingMessages # <<>>

\* C10 (as claimed): every exchange that reached the backend ends with a
\* value returned to the caller and an entry appended to the log.
C10_ReachedBackendYieldsValue ==
  (sent # <<>> /\ Over) => (returned # <<>> /\ appended # <<>>)

\* ----------------------------------------------------- claims on importFiles

\* What a line asks for, read off the line itself: nothing, or the directive
\* word and the normalized path written after it, whitespace before the '#'
\* allowed
DirectiveOf(line) ==
  LET l == TrimStart(line) IN
    IF Len(l) >= 3 /\ l[1] \in {"#import", "#diff"} /\ IsSpace(l[2])
    THEN LET rest == TrimStart(Tail(l)) IN
           IF rest # <<>> /\ IsPathTok(rest[1])
           THEN <<[word |-> l[1], path |-> normalizePath(SplitWs(rest)[1])]>>
           ELSE <<>>
    ELSE <<>>

\* The paths the directive lines among lines name, for the given directive
\* words, top to bottom
RECURSIVE PathsIn(_, _)
PathsIn(lines, words) ==
  IF lines = <<>> THEN <<>>
  ELSE LET d == DirectiveOf(Head(lines)) IN
    IF d # <<>> /\ d[1].word \in words
    THEN <<d[1].path>> \o PathsIn(Tail(lines), words)
    ELSE PathsIn(Tail(lines), words)

\* The lines with every directive line replaced by the lines of its file
RECURSIVE ExpectedLines(_)
ExpectedLines(lines) ==
  IF lines = <<>> THEN <<>>
  ELSE LET d == DirectiveOf(Head(lines)) IN
    IF d # <<>>
    THEN Split(Files[d[1].path], NL) \o ExpectedLines(Tail(lines))
    ELSE <<Head(lines)>> \o ExpectedLines(Tail(lines))

\* The lines of the text importFiles was given, and those its loop has taken
GivenLines == Split(expand.content, NL)

TakenLines == SubSeq(GivenLines, 1, Len(GivenLines) - Len(expand.lines))

\* The directive lines that name a file that cannot be read
Unreadables ==
  { i \in 1..Len(GivenLines) :
      DirectiveOf(GivenLines[i]) # <<>> /\ ~Readable(DirectiveOf(GivenLines[i])[1].path) }

FirstUnreadable == CHOOSE i \in Unreadables : \A j \in Unreadables : i <= j

Contains(text, part) ==
  \E i \in 1..(Len(text) - Len(part) + 1) : SubSeq(text, i, i + Len(part) - 1) = part

\* No directive line of the given text has whitespace before its '#'
NoIndentedDirective ==
  \A i \in 1..Len(GivenLines) :
    DirectiveOf(GivenLines[i]) # <<>> => ~IsSpace(GivenLines[i][1])

ImportReturned == expand.pc = "returned"

\* The loop taken line by line returns what importFiles returns
StepsAgreeWithImportFiles ==
  ImportReturned => expand.result[1] = importFiles(expand.content)

\* C11: importFiles fails fast: when a directive line names a file that
\* cannot be read, it returns success=false at the first such line, with a
\* text that contains that file's resolved path, having read no file and
\* collected no #diff path of a later line.
C11_FailsFastAtFirstUnreadable ==
  (ImportReturned /\ Unreadables # {}) =>
    LET k == FirstUnreadable
        upTo == SubSeq(GivenLines, 1, k)
        result == expand.result[1]
    IN /\ ~result.success
       /\ Contains(result.text, DirectiveOf(GivenLines[k])[1].path)
       /\ TakenLines = upTo
       /\ expand.reads = PathsIn(upTo, {"#import", "#diff"})
       /\ result.diffFiles = PathsIn(upTo, {"#diff"})

\* C11 holds of the texts whose directive lines start with the '#'
FailsFastWithoutIndent == NoIndentedDirective => C11_FailsFastAtFirstUnreadable

\* C12: the file read for a directive line is the one named by the first
\* whitespace-delimited token after the directive word, normalized, also when
\* whitespace comes before the '#'.
C12_ReadsThePathAfterTheWord ==
  expand.pc \in {"loop", "returned"} =>
    expand.reads = PathsIn(TakenLines, {"#import", "#diff"})

\* C12 holds of the texts whose directive lines start with the '#'
ReadsThePathWithoutIndent == NoIndentedDirective => C12_ReadsThePathAfterTheWord

\* C13: when every directive of the text names a readable file, importFiles
\* returns success=true and the input lines in order with each directive line
\* replaced in place by the lines of its file, those lines left as they are.
C13_ReadableDirectivesAreReplacedInPlace ==
  (ImportReturned /\ Unreadables = {}) =>
    /\ expand.result[1].success
    /\ expand.result[1].text = Join(ExpectedLines(GivenLines), NL)

\* C13 holds of the texts whose directive lines start with the '#'
ReplacedInPlaceWithoutIndent ==
  NoIndentedDirective => C13_ReadableDirectivesAreReplacedInPlace

\* C14: the diffTargets importFiles returns are the normalized paths of the
\* #diff lines it has taken, top to bottom, one per occurrence; #import lines
\* and other lines add none.
C14_DiffTargetsAreTheDiffPaths ==
  ImportReturned =>
    expand.result[1].diffFiles = PathsIn(TakenLines, {"#diff"})

\* C14 holds of the texts whose directive lines start with the '#'
DiffPathsWithoutIndent == NoIndentedDirective => C14_DiffTargetsAreTheDiffPaths

\* C15: a text without a directive line comes back unchanged, with
\* success=true and no diffTargets, also when a line holds #import or #diff
\* after other text; and importFiles applied again to a result without a
\* directive line returns that same text.
C15_DirectiveFreeTextIsUnchanged ==
  (ImportReturned /\ PathsIn(GivenLines, {"#import", "#diff"}) = <<>>) =>
    expand.result[1] = [success |-> TRUE, text |-> expand.content, diffFiles |-> <<>>]

C15_Witness ==
  /\ ImportReturned
  /\ expand.again
  /\ expand.before # <<expand.content>>
  /\ PathsIn(GivenLines, {"#import", "#diff"}) = <<>>
  /\ \E i \in 1..Len(GivenLines) : Contains(GivenLines[i], <<"hi", " ", "#import">>)
  /\ expand.result[1].text = expand.content

\* ------------------------------------------------------ claims on the stream

\* The contents of the delta lines among lines, in arrival order (a delta
\* without content carries no fragment)
RECURSIVE FragmentsOf(_)
FragmentsOf(lines) ==
  IF lines = <<>> THEN <<>>
  ELSE IF Head(lines).kind = "delta" /\ Head(lines).text # <<>>
       THEN <<Head(lines).text>> \o FragmentsOf(Tail(lines))
       ELSE FragmentsOf(Tail(lines))

\* Texts put one after the other
RECURSIVE Concat(_)
Concat(texts) == IF texts = <<>> THEN <<>> ELSE Head(texts) \o Concat(Tail(texts))

\* t with every newline that follows a newline left out
RECURSIVE SqueezeFrom(_, _)
SqueezeFrom(t, i) ==
  IF i > Len(t) THEN <<>>
  ELSE (IF t[i] = NL /\ i > 1 /\ t[i - 1] = NL THEN <<>> ELSE <<t[i]>>)
       \o SqueezeFrom(t, i + 1)

Squeeze(t) == SqueezeFrom(t, 1)

\* The fragments of lines joined in order, each with its newline runs made
\* one newline, a whitespace-only first fragment left out
StreamTextOf(lines) ==
  LET frs == FragmentsOf(lines)
      kept == IF frs # <<>> /\ (\A i \in 1..Len(frs[1]) : IsSpace(frs[1][i]))
              THEN Tail(frs) ELSE frs
  IN Concat([i \in 1..Len(kept) |-> Squeeze(kept[i])])

\* The listener has come to the end marker of a stream
StreamCompleted ==
  /\ options.stream
  /\ sent # <<>>
  /\ received # <<>>
  /\ received[Len(received)].kind = "done"

\* C16 as stated: on the end marker the response text is the fragments
\* received before it, joined in arrival order and trimmed, no fragment
\* dropped or altered.
C16_ResponseIsFragmentsJoined ==
  StreamCompleted => returned = <<Trim(Concat(FragmentsOf(received)))>>

\* C16, amended: on the end marker the result text is the fragments received
\* before it joined in arrival order, each with its runs of newlines made one
\* newline and a whitespace-only first fragment left out; the response
\* text is that text trimmed.
C16_ResponseIsSqueezedFragmentsJoined ==
  StreamCompleted =>
    /\ gptResults # <<>>
    /\ gptResults[1].text = StreamTextOf(received)
    /\ returned = <<Trim(StreamTextOf(received))>>

C16_Witness ==
  /\ StreamCompleted
  /\ Len(FragmentsOf(received)) >= 2
  /\ returned # <<Trim(Concat(FragmentsOf(received)))>>
  /\ returned = <<<<"a", NL, "a">>>>

\* C17: a line of the stream that does not parse is skipped and the stream
\* goes on: the fragments before and after it are accumulated in order, and
\* on the end marker the exchange completes with the accumulated text, which
\* does not carry the Error: marker.
C17_MalformedLineIsSkipped ==
  (options.stream /\ \E i \in 1..Len(received) : received[i].kind = "malformed") =>
    /\ response = StreamTextOf(received)
    /\ thrown = <<>>
    /\ IF received[Len(received)].kind = "done"
       THEN /\ pc = "returned"
            /\ gptResults = <<[text |-> response, tokens |-> gptResults[1].tokens]>>
            /\ \A i \in 1..Len(returned[1]) : returned[1][i] # "Error:"
       ELSE /\ pc \in {"streaming", "threw", "abandoned"}
            /\ gptResults = <<>>

C17_Witness ==
  /\ StreamCompleted
  /\ \E i \in 2..(Len(received) - 2) :
       /\ received[i].kind = "malformed"
       /\ received[i - 1].kind = "delta" /\ received[i - 1].text # <<>>
       /\ received[i + 1].kind = "delta" /\ received[i + 1].text # <<>>
  /\ returned = <<<<"a", "hi">>>>

\* ----------------------------------------------------- claims on chat chains

\* This step appends the entry of a chat-mode exchange that reached the
\* backend, to a log that already holds an entry
ChatEntryAppended ==
  /\ Len(appended') = Len(appended) + 1
  /\ options.chat
  /\ sent # <<>>
  /\ LogEntries(logFile) # <<>>

\* The messages of new are those of the log's last entry followed by added
ExtendsLastEntryBy(new, roles) ==
  LET prev == LastEntry(logFile).messages
      n == Len(prev)
  IN /\ Len(new.messages) = n + Len(roles)
     /\ SubSeq(new.messages, 1, n) = prev
     /\ \A i \in 1..Len(roles) : new.messages[n + i].role = roles[i]
     /\ LastEntry(logFile') = new

\* C18 as stated: the entry a chat-mode exchange appends has the messages
\* of the entry before it as a strict prefix, followed by the new user message
\* and the new assistant message.
C18_ChatEntryExtendsLastByUserAssistant ==
  [][ChatEntryAppended =>
       ExtendsLastEntryBy(appended'[Len(appended')], <<"user", "assistant">>)]_vars

\* C18, amended: the entry a chat-mode exchange appends has the messages of
\* the entry before it as a strict prefix, followed by the new user message,
\* then the system message of the prompt file when the stream and prompt
\* options are both set, then the new assistant message.
C18_ChatEntryExtendsLastByExchange ==
  [][ChatEntryAppended =>
       ExtendsLastEntryBy(appended'[Len(appended')],
                          IF options.stream /\ options.prompt # <<>>
                          THEN <<"user", "system", "assistant">>
                          ELSE <<"user", "assistant">>)]_vars

\* The second invocation of a session has appended the third entry of a chain
C18_Witness ==
  /\ runs = 1
  /\ options.chat
  /\ sent # <<>>
  /\ Len(appended) = 2
  /\ Len(LogEntries(logFile)) = 3
  /\ \A i \in 2..3 :
       LET prev == LogEntries(logFile)[i - 1].messages
           this == LogEntries(logFile)[i].messages
       IN Len(this) > Len(prev) /\ SubSeq(this, 1, Len(prev)) = prev
  /\ \E i \in 1..Len(LastEntry(logFile).messages) :
       LastEntry(logFile).messages[i].role = "system"

\* ------------------------------------------------- claims on the hand-off

\* C19: saveFiles is called only once fetch has returned, the exchange being
\* in the log, and only for the input command or with the save option; the
\* diff target handed to it is options.diff when given, else the first of the
\* diffTargets, else none; and the diff viewer is spawned only when there
\* are both a diff target and a saved file.
C19_HandoffFollowsLoggedExchange ==
  handoff # <<>> =>
    /\ pc = "returned"
    /\ returned # <<>>
    /\ appended # <<>>
    /\ LastEntry(logFile) = appended[Len(appended)]
    /\ LET logged == LastEntry(logFile).messages IN
         logged[Len(logged)] = Message("assistant", returned[1])
    /\ type = "input" \/ options.save
    /\ handoff[1].response = returned[1]
    /\ handoff[1].diffFile =
         (IF options.diff # <<>> THEN options.diff
          ELSE IF imported[1].diffFiles # <<>> THEN imported[1].diffFiles[1]
          ELSE <<>>)
    /\ handoff[1].spawned => (handoff[1].diffFile # <<>> /\ handoff[1].newFile)

\* An input command whose file holds a #diff line, no diff option given: the
\* viewer is spawned on the saved file and the #diff path
C19_Witness ==
  /\ handoff # <<>>
  /\ type = "input"
  /\ options.diff = <<>>
  /\ handoff[1].diffFile = <<"f1">>
  /\ handoff[1].spawned
  /\ appended # <<>>

====
